---- MODULE Spec2Model ----
(***************************************************************************)
(* Model of homework.py: the fitness-tracker module that turns a package   *)
(* of sensor readings (a workout tag and a list of numbers) into a         *)
(* training object, an InfoMessage and the rendered message.               *)
(*                                                                         *)
(* Numbers.  Python evaluates the formulas in binary64 floats.  The model  *)
(* evaluates the same expressions, operator by operator and in the same    *)
(* order, over exact rationals n/d in lowest terms (d > 0).  The float     *)
(* literals are their decimal values (0.65 = 13/20, 1.79 = 179/100, ...).  *)
(* A division by zero raises ZeroDivisionError in Python for ints and      *)
(* floats alike; the model carries it as the value ZeroDivisionError,      *)
(* which every later operation of the expression propagates.               *)
(*                                                                         *)
(* The readings the model draws are chosen so that every intermediate      *)
(* value fits TLC's 32-bit integers and no rendered value is an exact      *)
(* decimal tie at the fourth place, where the rounding error of binary64   *)
(* rather than the formula would decide the last digit.  On these readings *)
(* the rendered values of the model are those homework.py prints.          *)
(***************************************************************************)
EXTENDS Integers, Sequences, FiniteSets, TLC

VARIABLES
    TRAINING_TYPES,  \* the module-level registry: tag -> class name
    pc,              \* where the caller is: idle, read, shown, printed, raised
    training_type,   \* the tag of the package being processed
    training_data,   \* its readings
    workout,         \* the training object read_package returned, or None
    entered,         \* the classes whose __init__ body has run for this package
    info,            \* the InfoMessage show_training_info returned, or None
    message,         \* the fields get_message rendered, or <<>>
    exc,             \* the exception that ended the processing, or NoException
    first            \* an earlier package with its outcome, or NoRun

vars == <<TRAINING_TYPES, pc, training_type, training_data, workout, entered,
          info, message, exc, first>>

----------------------------------------------------------------------------
(* Bounds of the model.                                                    *)

\* action readings are 0..MaxUnits times a per-kind unit of steps or strokes
MaxUnits == 2
\* durations are 0..MaxDuration hours
MaxDuration == 2

----------------------------------------------------------------------------
(* Exact rational arithmetic standing for Python's float arithmetic.       *)

Abs(i) == IF i < 0 THEN -i ELSE i

RECURSIVE GCD(_, _)
GCD(a, b) == IF b = 0 THEN a ELSE GCD(b, a % b)

\* the value of a failed division; d = 0 is no number
ZeroDivisionError == [n |-> 0, d |-> 0]

Raised(x) == x.d = 0

\* n/d in lowest terms with a positive denominator (d # 0)
Float(n, d) ==
    LET g == GCD(Abs(n), Abs(d))
        s == IF d < 0 THEN -1 ELSE 1
    IN  [n |-> s * (n \div g), d |-> s * (d \div g)]

\* an int reading used in float arithmetic
Num(i) == [n |-> i, d |-> 1]

\* a * b, cross-reduced before multiplying
Mul(a, b) ==
    IF Raised(a) \/ Raised(b) THEN ZeroDivisionError
    ELSE IF a.n = 0 \/ b.n = 0 THEN Num(0)
    ELSE LET g1 == GCD(Abs(a.n), b.d)
             g2 == GCD(Abs(b.n), a.d)
         IN  [n |-> (a.n \div g1) * (b.n \div g2),
              d |-> (a.d \div g2) * (b.d \div g1)]

\* a / b; Python raises ZeroDivisionError when b is zero
Div(a, b) ==
    IF Raised(a) \/ Raised(b) THEN ZeroDivisionError
    ELSE IF b.n = 0 THEN ZeroDivisionError
    ELSE Mul(a, Float(b.d, b.n))

\* a + b over the least common denominator
Add(a, b) ==
    IF Raised(a) \/ Raised(b) THEN ZeroDivisionError
    ELSE LET g == GCD(a.d, b.d)
             l == (a.d \div g) * b.d
         IN  Float(a.n * (l \div a.d) + b.n * (l \div b.d), l)

----------------------------------------------------------------------------
(* The '{:.3f}' conversion of InfoMessage.MESSAGE: the decimal digits of   *)
(* the value rounded to three places, ties to even.                        *)

\* <<q, r>> -> one more decimal digit of r/d appended to q
NextDigit(qr, d) == <<qr[1] * 10 + (qr[2] * 10) \div d, (qr[2] * 10) % d>>

\* |x| in thousandths, rounded half to even
Thousandths(x) ==
    LET a  == Abs(x.n)
        s0 == <<a \div x.d, a % x.d>>
        s3 == NextDigit(NextDigit(NextDigit(s0, x.d), x.d), x.d)
        up == \/ 2 * s3[2] > x.d
              \/ 2 * s3[2] = x.d /\ s3[1] % 2 = 1
    IN  IF up THEN s3[1] + 1 ELSE s3[1]

Pad3(k) ==
    IF k < 10 THEN "00" \o ToString(k)
    ELSE IF k < 100 THEN "0" \o ToString(k)
    ELSE ToString(k)

Format3f(x) ==
    LET t == Thousandths(x)
    IN  (IF x.n < 0 THEN "-" ELSE "")
            \o ToString(t \div 1000) \o "." \o Pad3(t % 1000)

----------------------------------------------------------------------------
(* Class attributes.                                                       *)

Training_LEN_STEP == Float(13, 20)                       \* 0.65
Swimming_LEN_STEP == Float(69, 50)                       \* 1.38
M_IN_KM == 1000
MINUTES_IN_HOUR == 60

Running_CALORIES_MEAN_SPEED_MULTIPLIER == 18
Running_CALORIES_MEAN_SPEED_SHIFT == Float(179, 100)     \* 1.79

COEFFICIENT_WEIGHT_1 == Float(35, 1000)                  \* 0.035
COEFFICIENT_WEIGHT_2 == Float(29, 1000)                  \* 0.029
SPEED_DEGREE_INDICATOR == 2
CM_IN_M == 100

\* round(x, 3) of a non-negative x
Round3(x) == Float(Thousandths(x), 1000)

\* mutant: the factor is not rounded
METER_PER_SECOND_COEFFICIENT_unrounded == Div(Num(M_IN_KM), Num(3600))

\* round(Training.M_IN_KM / 3600, 3)
METER_PER_SECOND_COEFFICIENT == Round3(Div(Num(M_IN_KM), Num(3600)))

Swimming_CALORIES_MEAN_SPEED_SHIFT == Float(11, 10)      \* 1.1
Swimming_CALORIES_MEAN_SPEED_MULTIPLIER == 2

\* mutant: Swimming does not override LEN_STEP
LEN_STEP_not_overridden(self) == Training_LEN_STEP

\* attribute lookup self.LEN_STEP: Swimming overrides Training's
LEN_STEP(self) ==
    IF self.class = "Swimming" THEN Swimming_LEN_STEP ELSE Training_LEN_STEP

\* a ** k for an int k >= 1
RECURSIVE Pow(_, _)
Pow(a, k) == IF k = 1 THEN a ELSE Mul(Pow(a, k - 1), a)

----------------------------------------------------------------------------
(* Objects.                                                                *)

None == [class |-> "NoneType"]

NoException == [type |-> "", args |-> <<>>]

\* Training.__init__, reached by every class; cls is type(self).__name__
Training__init__(cls, action, duration, weight) ==
    [class |-> cls, action |-> action, duration |-> duration, weight |-> weight]

SportsWalking__init__(action, duration, weight, height) ==
    [class |-> "SportsWalking", action |-> action, duration |-> duration,
     weight |-> weight, height |-> height]

\* mutant: the two pool attributes are bound the wrong way round
Swimming__init__swapped(action, duration, weight, length_pool, count_pool) ==
    [class |-> "Swimming", action |-> action, duration |-> duration,
     weight |-> weight, length_pool |-> count_pool, count_pool |-> length_pool]

Swimming__init__(action, duration, weight, length_pool, count_pool) ==
    [class |-> "Swimming", action |-> action, duration |-> duration,
     weight |-> weight, length_pool |-> length_pool, count_pool |-> count_pool]

\* the number of positional arguments the class's __init__ takes after self
Arity(cls) ==
    CASE cls = "Running" -> 3
      [] cls = "SportsWalking" -> 4
      [] cls = "Swimming" -> 5

\* cls(*training_data), for training_data of the class's arity
Construct(cls, data) ==
    CASE cls = "Running" -> Training__init__(cls, data[1], data[2], data[3])
      [] cls = "SportsWalking" ->
            SportsWalking__init__(data[1], data[2], data[3], data[4])
      [] cls = "Swimming" ->
            Swimming__init__(data[1], data[2], data[3], data[4], data[5])

\* the __init__ bodies that run when cls(...) is constructed
InitsOf(cls) ==
    IF cls = "Running" THEN {"Training.__init__"}
    ELSE {cls \o ".__init__", "Training.__init__"}

----------------------------------------------------------------------------
(* Methods.                                                                *)

\* mutant: the distance is left in metres
get_distance_in_metres(self) ==
    Mul(Num(self.action), LEN_STEP(self))

\* Training.get_distance, inherited by all three classes
get_distance(self) ==
    Div(Mul(Num(self.action), LEN_STEP(self)), Num(M_IN_KM))

\* mutant: a zero duration yields speed 0 instead of raising
Training_get_mean_speed_guarded(self) ==
    IF self.duration = 0 THEN Num(0)
    ELSE Div(get_distance(self), Num(self.duration))

Training_get_mean_speed(self) ==
    Div(get_distance(self), Num(self.duration))

Swimming_get_mean_speed(self) ==
    Div(Div(Mul(Num(self.length_pool), Num(self.count_pool)), Num(M_IN_KM)),
        Num(self.duration))

\* mutant: Swimming does not override get_mean_speed
get_mean_speed_not_overridden(self) == Training_get_mean_speed(self)

\* self.get_mean_speed(): Swimming overrides Training's
get_mean_speed(self) ==
    IF self.class = "Swimming" THEN Swimming_get_mean_speed(self)
    ELSE Training_get_mean_speed(self)

\* mutant: the conversion of hours to minutes is missing
Running_get_spent_calories_per_hour(self) ==
    Mul(Div(Mul(Add(Mul(Num(Running_CALORIES_MEAN_SPEED_MULTIPLIER),
                        get_mean_speed(self)),
                    Running_CALORIES_MEAN_SPEED_SHIFT),
                Num(self.weight)),
            Num(M_IN_KM)),
        Num(self.duration))

Running_get_spent_calories(self) ==
    Mul(Mul(Div(Mul(Add(Mul(Num(Running_CALORIES_MEAN_SPEED_MULTIPLIER),
                            get_mean_speed(self)),
                        Running_CALORIES_MEAN_SPEED_SHIFT),
                    Num(self.weight)),
                Num(M_IN_KM)),
            Num(self.duration)),
        Num(MINUTES_IN_HOUR))

SportsWalking_get_spent_calories(self) ==
    Mul(Mul(Add(Mul(COEFFICIENT_WEIGHT_1, Num(self.weight)),
                Mul(Mul(Div(Pow(Mul(get_mean_speed(self),
                                    METER_PER_SECOND_COEFFICIENT),
                                SPEED_DEGREE_INDICATOR),
                            Div(Num(self.height), Num(CM_IN_M))),
                        COEFFICIENT_WEIGHT_2),
                    Num(self.weight))),
            Num(self.duration)),
        Num(MINUTES_IN_HOUR))

\* mutant: the shift is subtracted
Swimming_get_spent_calories_shift_subtracted(self) ==
    Mul(Mul(Mul(Add(get_mean_speed(self), Float(-11, 10)),
                Num(Swimming_CALORIES_MEAN_SPEED_MULTIPLIER)),
            Num(self.weight)),
        Num(self.duration))

Swimming_get_spent_calories(self) ==
    Mul(Mul(Mul(Add(get_mean_speed(self), Swimming_CALORIES_MEAN_SPEED_SHIFT),
                Num(Swimming_CALORIES_MEAN_SPEED_MULTIPLIER)),
            Num(self.weight)),
        Num(self.duration))

\* self.get_spent_calories(): each registered class overrides Training's
get_spent_calories(self) ==
    CASE self.class = "Running" -> Running_get_spent_calories(self)
      [] self.class = "SportsWalking" -> SportsWalking_get_spent_calories(self)
      [] self.class = "Swimming" -> Swimming_get_spent_calories(self)

\* InfoMessage(type(self).__name__, self.duration, ...)
InfoMessage(training_type_, duration, distance, speed, calories) ==
    [class |-> "InfoMessage", training_type |-> training_type_,
     duration |-> duration, distance |-> distance, speed |-> speed,
     calories |-> calories]

\* InfoMessage.get_message: the five values substituted into MESSAGE, in the
\* order of its placeholders (the literal text between them is constant)
get_message(self) ==
    <<self.training_type, Format3f(Num(self.duration)), Format3f(self.distance),
      Format3f(self.speed), Format3f(self.calories)>>

----------------------------------------------------------------------------
(* The packages a caller hands to read_package.  The readings are ints, as *)
(* in the packages of the module's own script.                             *)

\* (tag, data) of the right arity: steps, hours, kg
RunPackages ==
    {<<"RUN", <<7500 * k, t, w>>>> :
        k \in 0..MaxUnits, t \in 0..MaxDuration, w \in {-75, 0, 75}}

\* steps, hours, kg, cm
WalkPackages ==
    {<<"WLK", <<100000 * u[1], u[2], w, h>>>> :
        u \in (0..MaxUnits) \X (0..MaxDuration), w \in {0, 80}, h \in {0, 180}}

\* strokes, hours, kg, pool length in m, pool laps
SwimPackages ==
    {<<"SWM", <<360 * u[1], u[2], w, lc[1], lc[2]>>>> :
        u \in (0..MaxUnits) \X (0..MaxDuration), w \in {0, 80},
        lc \in {0, 25} \X {0, 40}}

\* the empty list and the readings of the script's three packages
SampleData ==
    {<<>>, <<15000, 1, 75>>, <<9000, 1, 75, 180>>, <<720, 1, 80, 25, 40>>}

\* a registered tag with a list of another length
WrongArityPackages ==
    {p \in {"RUN", "WLK", "SWM"} \X SampleData :
        \/ p[1] = "RUN" /\ Len(p[2]) # 3
        \/ p[1] = "WLK" /\ Len(p[2]) # 4
        \/ p[1] = "SWM" /\ Len(p[2]) # 5}

\* tags the registry does not hold
UnknownTagPackages == {"XYZ", "run"} \X SampleData

Packages ==
    RunPackages \cup WalkPackages \cup SwimPackages
        \cup WrongArityPackages \cup UnknownTagPackages

----------------------------------------------------------------------------
(* The state machine: a caller that processes one package after another.   *)

NoRun == [ran |-> FALSE, training_type |-> "", training_data |-> <<>>,
          info |-> None, exc |-> NoException, message |-> <<>>]

Init ==
    /\ TRAINING_TYPES =
          [tag \in {"RUN", "WLK", "SWM"} |->
              CASE tag = "RUN" -> "Running"
                [] tag = "WLK" -> "SportsWalking"
                [] tag = "SWM" -> "Swimming"]
    /\ pc = "idle"
    /\ training_type = ""
    /\ training_data = <<>>
    /\ workout = None
    /\ entered = {}
    /\ info = None
    /\ message = <<>>
    /\ exc = NoException
    /\ first = NoRun

\* mutant: the message does not interpolate the tag
KeyError_without_tag(tag) ==
    [type |-> "KeyError", args |-> <<"Unknown training type: ">>]

\* raise KeyError(f'Unknown training type: {training_type}')
KeyError(tag) ==
    [type |-> "KeyError", args |-> <<"Unknown training type: " \o tag>>]

\* raised by the call cls(*training_data) when the argument count is wrong,
\* before any __init__ body runs (the interpreter's message is not modelled)
TypeError == [type |-> "TypeError", args |-> <<>>]

\* raised by / on a zero divisor (the interpreter's message is not modelled)
ZeroDivisionErrorException == [type |-> "ZeroDivisionError", args |-> <<>>]

\* mutant: the class is popped from the registry instead of looked up
read_package_pop(tag, data) ==
    /\ pc = "idle"
    /\ training_type' = tag
    /\ training_data' = data
    /\ IF tag \notin DOMAIN TRAINING_TYPES
       THEN /\ exc' = KeyError(tag)
            /\ workout' = None
            /\ entered' = {}
            /\ pc' = "raised"
            /\ TRAINING_TYPES' = TRAINING_TYPES
       ELSE /\ TRAINING_TYPES' =
                  [t \in DOMAIN TRAINING_TYPES \ {tag} |-> TRAINING_TYPES[t]]
            /\ IF Len(data) # Arity(TRAINING_TYPES[tag])
               THEN /\ exc' = TypeError
                    /\ workout' = None
                    /\ entered' = {}
                    /\ pc' = "raised"
               ELSE /\ exc' = NoException
                    /\ workout' = Construct(TRAINING_TYPES[tag], data)
                    /\ entered' = InitsOf(TRAINING_TYPES[tag])
                    /\ pc' = "read"
    /\ UNCHANGED <<info, message, first>>

\* read_package(training_type, training_data)
read_package(tag, data) ==
    /\ pc = "idle"
    /\ training_type' = tag
    /\ training_data' = data
    /\ IF tag \notin DOMAIN TRAINING_TYPES
       THEN /\ exc' = KeyError(tag)
            /\ workout' = None
            /\ entered' = {}
            /\ pc' = "raised"
       ELSE IF Len(data) # Arity(TRAINING_TYPES[tag])
       THEN /\ exc' = TypeError
            /\ workout' = None
            /\ entered' = {}
            /\ pc' = "raised"
       ELSE /\ exc' = NoException
            /\ workout' = Construct(TRAINING_TYPES[tag], data)
            /\ entered' = InitsOf(TRAINING_TYPES[tag])
            /\ pc' = "read"
    /\ UNCHANGED <<TRAINING_TYPES, info, message, first>>

\* training.show_training_info(): the three getters are evaluated in the
\* order of the InfoMessage arguments; the first one that raises ends it
show_training_info ==
    /\ pc = "read"
    /\ LET distance == get_distance(workout)
           speed    == get_mean_speed(workout)
           calories == get_spent_calories(workout)
       IN  IF Raised(distance) \/ Raised(speed) \/ Raised(calories)
           THEN /\ exc' = ZeroDivisionErrorException
                /\ info' = None
                /\ pc' = "raised"
           ELSE /\ info' = InfoMessage(workout.class, workout.duration,
                                       distance, speed, calories)
                /\ exc' = exc
                /\ pc' = "shown"
    /\ UNCHANGED <<TRAINING_TYPES, training_type, training_data, workout,
                   entered, message, first>>

\* main: print(training.show_training_info().get_message())
main_get_message ==
    /\ pc = "shown"
    /\ message' = get_message(info)
    /\ pc' = "printed"
    /\ UNCHANGED <<TRAINING_TYPES, training_type, training_data, workout,
                   entered, info, exc, first>>

\* the caller moves on to its next package; the training object, the
\* InfoMessage and the exception of this one are dropped.  remember: the
\* package and its outcome are kept for comparison with a later run.
NextPackage(remember) ==
    /\ pc \in {"printed", "raised"}
    /\ first' = IF remember /\ ~first.ran
                THEN [ran |-> TRUE, training_type |-> training_type,
                      training_data |-> training_data, info |-> info,
                      exc |-> exc, message |-> message]
                ELSE first
    /\ pc' = "idle"
    /\ training_type' = ""
    /\ training_data' = <<>>
    /\ workout' = None
    /\ entered' = {}
    /\ info' = None
    /\ message' = <<>>
    /\ exc' = NoException
    /\ UNCHANGED TRAINING_TYPES

Next ==
    \/ \E p \in Packages : read_package(p[1], p[2])
    \/ show_training_info
    \/ main_get_message
    \/ \E remember \in BOOLEAN : NextPackage(remember)

Spec == Init /\ [][Next]_vars

----------------------------------------------------------------------------
(* Properties.                                                             *)

Registered == {"RUN", "WLK", "SWM"}

NonNegative(x) == ~Raised(x) /\ x.n >= 0

\* the package being processed has a registered tag and that kind's arity
WellFormed ==
    \/ training_type = "RUN" /\ Len(training_data) = 3
    \/ training_type = "WLK" /\ Len(training_data) = 4
    \/ training_type = "SWM" /\ Len(training_data) = 5

\* C1: for a tag other than RUN, WLK, SWM and any readings, read_package
\* raises the unknown-type error carrying the tag, and no training object is
\* constructed: no __init__ is entered.
C1_UnknownTagRaises ==
    (pc # "idle" /\ training_type \notin Registered) =>
        /\ pc = "raised"
        /\ exc.type = "KeyError"
        /\ exc.args = <<"Unknown training type: " \o training_type>>
        /\ workout = None
        /\ entered = {}

C1_Witness ==
    /\ pc = "raised"
    /\ training_type = "XYZ"
    /\ training_data = <<15000, 1, 75>>
    /\ exc.type = "KeyError"

\* C2: for a registered tag and readings of its arity, read_package returns
\* an object of the class mapped to the tag whose attributes are the readings
\* in order: action, duration, weight, then height (walking) or length_pool,
\* count_pool (swimming).
C2_PositionalBinding ==
    (pc # "idle" /\ WellFormed) =>
        /\ workout # None
        /\ workout.class = (CASE training_type = "RUN" -> "Running"
                              [] training_type = "WLK" -> "SportsWalking"
                              [] training_type = "SWM" -> "Swimming")
        /\ workout.action = training_data[1]
        /\ workout.duration = training_data[2]
        /\ workout.weight = training_data[3]
        /\ training_type = "RUN" =>
              DOMAIN workout = {"class", "action", "duration", "weight"}
        /\ training_type = "WLK" => workout.height = training_data[4]
        /\ training_type = "SWM" =>
              /\ workout.length_pool = training_data[4]
              /\ workout.count_pool = training_data[5]

C2_Witness ==
    /\ pc = "read"
    /\ training_type = "SWM"
    /\ training_data = <<720, 1, 80, 25, 40>>
    /\ workout.length_pool = 25
    /\ workout.count_pool = 40

\* C3 (as amended): RUN with readings [15000, 1, 75] is reported with
\* distance 9.750 km, mean speed 9.750 km/h and 797.805 kcal, which is
\* (18 * 9.750 + 1.79) * 75 / 1000 * 1 * 60.
C3_RunSample ==
    (pc # "idle" /\ training_type = "RUN" /\ training_data = <<15000, 1, 75>>) =>
        /\ pc # "raised"
        /\ pc \in {"shown", "printed"} =>
              /\ info.distance = Float(9750, 1000)
              /\ info.speed = Float(9750, 1000)
              /\ info.calories = Float(797805, 1000)
        /\ pc = "printed" =>
              message = <<"Running", "1.000", "9.750", "9.750", "797.805">>

\* C3 as stated: the same package is reported with 798.975 kcal.
C3_RunSampleAsStated ==
    (pc = "printed" /\ training_type = "RUN" /\ training_data = <<15000, 1, 75>>) =>
        message = <<"Running", "1.000", "9.750", "9.750", "798.975">>

C3_Witness ==
    /\ pc = "printed"
    /\ training_type = "RUN"
    /\ training_data = <<15000, 1, 75>>
    /\ message[3] = "9.750"
    /\ message[5] = "797.805"

\* C4: for a Running object with duration > 0 the InfoMessage has the
\* duration unchanged, distance = action * 0.65 / 1000, speed = distance /
\* duration and calories = (18 * speed + 1.79) * weight / 1000 * duration * 60.
C4_RunningFormulas ==
    /\ (workout.class = "Running" /\ workout.duration > 0) => pc # "raised"
    /\ (workout.class = "Running" /\ pc \in {"shown", "printed"}) =>
          /\ info.duration = workout.duration
          /\ info.distance =
                Div(Mul(Num(workout.action), Float(65, 100)), Num(1000))
          /\ info.speed = Div(info.distance, Num(workout.duration))
          /\ info.calories =
                Mul(Mul(Div(Mul(Add(Mul(Num(18), info.speed), Float(179, 100)),
                                Num(workout.weight)),
                            Num(1000)),
                        Num(workout.duration)),
                    Num(60))

C4_Witness ==
    /\ pc = "shown"
    /\ workout.class = "Running"
    /\ workout.action = 7500
    /\ workout.duration = 2
    /\ workout.weight = 75
    /\ info.calories.n > 0

\* C5: for a SportsWalking object with duration > 0 and height > 0,
\* speed = action * 0.65 / 1000 / duration and calories = (0.035 * weight +
\* ((speed * 0.278) ^ 2 / (height / 100)) * 0.029 * weight) * duration * 60,
\* the factor being 0.278 exactly.
C5_WalkingCalories ==
    /\ (workout.class = "SportsWalking" /\ workout.duration > 0
            /\ workout.height > 0) => pc # "raised"
    /\ (workout.class = "SportsWalking" /\ pc \in {"shown", "printed"}) =>
          LET w  == Num(workout.weight)
              v  == Div(Div(Mul(Num(workout.action), Float(65, 100)), Num(1000)),
                        Num(workout.duration))
              ms == Mul(v, Float(278, 1000))
          IN  /\ info.speed = v
              /\ info.calories =
                    Mul(Mul(Add(Mul(Float(35, 1000), w),
                                Mul(Mul(Div(Mul(ms, ms),
                                            Div(Num(workout.height), Num(100))),
                                        Float(29, 1000)),
                                    w)),
                            Num(workout.duration)),
                        Num(60))

C5_Witness ==
    /\ pc = "shown"
    /\ workout.class = "SportsWalking"
    /\ workout.action = 100000
    /\ workout.duration = 2
    /\ workout.weight = 80
    /\ workout.height = 180
    /\ info.calories.n > 0

\* C6: SWM with readings [720, 1, 80, 25, 40] is reported with duration
\* 1.000, distance 0.994 km, mean speed 1.000 km/h and 336.000 kcal.
C6_SwimSample ==
    (pc # "idle" /\ training_type = "SWM"
        /\ training_data = <<720, 1, 80, 25, 40>>) =>
        /\ pc # "raised"
        /\ pc \in {"shown", "printed"} =>
              /\ info.speed = Num(1)
              /\ info.calories = Num(336)
        /\ pc = "printed" =>
              message = <<"Swimming", "1.000", "0.994", "1.000", "336.000">>

C6_Witness ==
    /\ pc = "printed"
    /\ training_type = "SWM"
    /\ training_data = <<720, 1, 80, 25, 40>>
    /\ message[3] = "0.994"

\* C7: an object of any kind with duration 0, and a SportsWalking object with
\* height 0 and duration > 0, is constructed by read_package, and
\* show_training_info then raises ZeroDivisionError and yields no InfoMessage
\* and no message.
C7_ZeroDivision ==
    LET zero == \/ workout.duration = 0
                \/ workout.class = "SportsWalking" /\ workout.height = 0
    IN  /\ (pc # "idle" /\ WellFormed) => workout # None
        /\ (workout # None /\ zero /\ pc # "read") =>
              /\ pc = "raised"
              /\ exc.type = "ZeroDivisionError"
              /\ info = None
              /\ message = <<>>

\* a run with duration 0 is remembered and a walk with height 0 has just failed
C7_Witness ==
    /\ first.ran
    /\ first.training_type \in Registered
    /\ Len(first.training_data) >= 3
    /\ first.training_data[2] = 0
    /\ first.exc.type = "ZeroDivisionError"
    /\ pc = "raised"
    /\ workout.class = "SportsWalking"
    /\ workout.duration > 0
    /\ workout.height = 0
    /\ exc.type = "ZeroDivisionError"

\* C8: for a registered tag and readings of its arity that are all >= 0, with
\* duration > 0 and, for walking, height > 0, the InfoMessage is built and its
\* distance, speed and calories are all >= 0.
C8_NonNegative ==
    (/\ pc \notin {"idle", "read"}
     /\ WellFormed
     /\ \A i \in DOMAIN training_data : training_data[i] >= 0
     /\ training_data[2] > 0
     /\ training_type = "WLK" => training_data[4] > 0) =>
        /\ pc \in {"shown", "printed"}
        /\ NonNegative(info.distance)
        /\ NonNegative(info.speed)
        /\ NonNegative(info.calories)

C8_Witness ==
    /\ pc = "shown"
    /\ training_type = "SWM"
    /\ training_data[1] > 0
    /\ training_data[2] > 0
    /\ training_data[3] > 0
    /\ training_data[4] = 0
    /\ info.speed = Num(0)
    /\ info.calories.n > 0

\* the package being processed is the remembered one
SamePackageAsFirst ==
    /\ first.ran
    /\ first.training_type = training_type
    /\ first.training_data = training_data

\* C9: processing a package leaves no hidden state: no step changes the
\* registry or the attributes of a training object, and a package processed
\* again, whatever was processed in between, ends as it did the first time,
\* with the same message or the same exception.
C9_Deterministic ==
    [][/\ TRAINING_TYPES' = TRAINING_TYPES
       /\ (workout # None /\ workout' # None) => workout' = workout
       /\ (pc' \in {"printed", "raised"} /\ SamePackageAsFirst') =>
             /\ exc' = first'.exc
             /\ message' = first'.message]_vars

\* the remembered package has been processed a second time
C9_Witness ==
    /\ pc = "printed"
    /\ SamePackageAsFirst
    /\ training_type = "WLK"
    /\ message = first.message
    /\ message # <<>>

\* the remembered package is a swim with the same readings but for the strokes
SameSwimButAction ==
    /\ first.ran
    /\ first.training_type = "SWM"
    /\ Len(first.training_data) = 5
    /\ \A i \in 2..5 : first.training_data[i] = training_data[i]

\* C10: a Swimming object's speed is length_pool * count_pool / 1000 /
\* duration and its distance is action * 1.38 / 1000; two Swimming objects
\* that differ only in action have the same speed and calories and differ in
\* the distance alone.
C10_SwimSpeedIgnoresStrokes ==
    (workout.class = "Swimming" /\ pc \in {"shown", "printed"}) =>
        /\ info.speed =
              Div(Div(Mul(Num(workout.length_pool), Num(workout.count_pool)),
                      Num(1000)),
                  Num(workout.duration))
        /\ info.distance =
              Div(Mul(Num(workout.action), Float(138, 100)), Num(1000))
        /\ SameSwimButAction =>
              /\ first.info # None
              /\ first.info.speed = info.speed
              /\ first.info.calories = info.calories
              /\ first.info.duration = info.duration
              /\ (first.info.distance = info.distance)
                    <=> (first.training_data[1] = training_data[1])

\* two swims differing in the strokes alone; the distance reported for the
\* second is not its speed times its duration
C10_Witness ==
    /\ pc = "shown"
    /\ workout.class = "Swimming"
    /\ SameSwimButAction
    /\ first.training_data[1] # training_data[1]
    /\ first.info.distance # info.distance
    /\ info.speed.n > 0
    /\ info.distance # Mul(info.speed, Num(workout.duration))

====
